---- MODULE Spec2Model ----
(***************************************************************************)
(* A model of the resizable vector of cslib (vector.c): the storage        *)
(* manager (count, capacity, the elements buffer, doubling growth, the     *)
(* shift loops of insert and remove) and the iteration adapter.            *)
(*                                                                         *)
(* A vector is a record [count, capacity, elements].  `elements` is the    *)
(* memory at the elements pointer, cell 0 first.  Its first `capacity`     *)
(* cells are the allocated buffer; any cells after them are memory past    *)
(* the end of the buffer that the vector has written without owning it.    *)
(* Such cells keep what was written until another owner of that memory     *)
(* writes it: an allocation made later, or a write past the end of another *)
(* buffer.                                                                 *)
(***************************************************************************)
EXTENDS Integers, Sequences, FiniteSets, TLC

VARIABLES vec, live, status, ret, lastOp, abs, undo, iter, snap, yielded, src,
          history

vars == <<vec, live, status, ret, lastOp, abs, undo, iter, snap, yielded, src,
          history>>

(* ---------------------------------------------------------------- bounds *)

\* In SpecVec the vector grows only while count < MaxCount.
MaxCount == 3
\* In Spec a vector grows only while count < MaxPair.
MaxPair == 2
\* arrayToVector is given arrays of length 0..MaxArr.
MaxArr == 2
\* SpecAppend appends while count < MaxAppends; the first FreeAppends values
\* are any of Vals, the later ones are fixed by their position.
MaxAppends == 21
FreeAppends == 6
\* SpecArr gives arrayToVector arrays of length 0..MaxRound.
MaxRound == 5

(* ------------------------------------------------------------- constants *)

INITIAL_CAPACITY == 10

\* The null pointer.
NULL == 0
\* The content of a cell of a fresh block (newArray does not initialise it).
Undef == -1
\* The content of a cell past the buffer's end after its owner rewrote it.
Junk == -2

\* The element references the callers store.
Vals == {1, 2}
Handles == {"v", "c"}
Other(t) == IF t = "v" THEN "c" ELSE "v"

(* ------------------------------------------------------------ cell access *)

Max(a, b) == IF a >= b THEN a ELSE b

\* n cells of a fresh block.
newArray(n) == [k \in 1..n |-> Undef]

\* elements[i], i counted from 0; a cell never written holds anything.
Rd(e, i) == IF i >= 0 /\ i < Len(e) THEN e[i + 1] ELSE Junk

\* elements[i] = x, i counted from 0.
Wr(e, i, x) ==
    IF i < Len(e) THEN [e EXCEPT ![i + 1] = x]
    ELSE e \o [k \in 1..(i - Len(e)) |-> Junk] \o <<x>>

\* The vector's slots [0, count) as a sequence.
Contents(vector) == [k \in 1..vector.count |-> Rd(vector.elements, k - 1)]

\* The record of a handle that names no vector.
NoVector == [count |-> 0, capacity |-> 0, elements |-> <<>>]

(* ------------------------------------------------------- vector.c, pure *)

\* newVector, lines 39-48.
newVector ==
    [count |-> 0, capacity |-> INITIAL_CAPACITY,
     elements |-> newArray(INITIAL_CAPACITY)]

\* The loop "for (i = from; i < n; i++) dst[i] = from_[i]" of arrayToVector,
\* vectorToArray, cloneVector and expandCapacity.
RECURSIVE CopyLoop(_, _, _, _)
CopyLoop(dst, from, i, n) ==
    IF i < n THEN CopyLoop(Wr(dst, i, Rd(from, i)), from, i + 1, n) ELSE dst

\* arrayToVector for a present array, lines 60-68.
arrayToVector(array, n) ==
    [count |-> n, capacity |-> n,
     elements |-> CopyLoop(newArray(n), array, 0, n)]

\* vectorToArray leaving the entry after the elements unwritten.
ToArrayUnterminated(vector) ==
    LET n == vector.count
    IN  CopyLoop(newArray(n + 1), vector.elements, 0, n)

\* vectorToArray for a present vector, lines 76-82.
vectorToArray(vector) ==
    LET n == vector.count
    IN  Wr(CopyLoop(newArray(n + 1), vector.elements, 0, n), n, NULL)

isEmptyVector(vector) == vector.count = 0

sizeVector(vector) == vector.count

\* clearVector giving the buffer up for a fresh one of the initial capacity.
ClearShrinks(vector) ==
    [count |-> 0, capacity |-> INITIAL_CAPACITY,
     elements |-> newArray(INITIAL_CAPACITY)]

clearVector(vector) == [vector EXCEPT !.count = 0]

cloneVector(vector) ==
    [count |-> vector.count, capacity |-> vector.capacity,
     elements |-> CopyLoop(newArray(vector.capacity), vector.elements, 0,
                           vector.count)]

\* The index test of getVector, setVector and removeVector.
OutOfRange(vector, index) == index < 0 \/ index >= vector.count

\* The index test of insert refusing the index count.
InsertRefusesEnd(vector, index) == index < 0 \/ index >= vector.count

\* The index test of insert.
InsertOutOfRange(vector, index) == index < 0 \/ index > vector.count

getVector(vector, index) == Rd(vector.elements, index)

setVector(vector, index, value) ==
    [vector EXCEPT !.elements = Wr(vector.elements, index, value)]

\* expandCapacity growing by one slot instead of doubling.
GrowByOne(vector) ==
    [count |-> vector.count, capacity |-> vector.capacity + 1,
     elements |-> CopyLoop(newArray(vector.capacity + 1), vector.elements, 0,
                           vector.count)]

expandCapacity(vector) ==
    LET newCapacity == vector.capacity * 2
    IN  [count |-> vector.count, capacity |-> newCapacity,
         elements |-> CopyLoop(newArray(newCapacity), vector.elements, 0,
                               vector.count)]

addVector(vector, value) ==
    LET w == IF vector.count = vector.capacity THEN expandCapacity(vector)
             ELSE vector
    IN  [w EXCEPT !.elements = Wr(w.elements, w.count, value),
                  !.count = w.count + 1]

\* The loop of insert, lines 142-144: i runs down from count to index + 1.
RECURSIVE ShiftRight(_, _, _)
ShiftRight(e, i, index) ==
    IF i > index THEN ShiftRight(Wr(e, i, Rd(e, i - 1)), i - 1, index) ELSE e

\* The loop of insert run upwards: each cell is overwritten before it is read.
RECURSIVE ShiftUp(_, _, _)
ShiftUp(e, i, n) ==
    IF i < n THEN ShiftUp(Wr(e, i + 1, Rd(e, i)), i + 1, n) ELSE e

\* insert with the ascending loop.
InsertAscending(vector, index, value) ==
    LET w == IF vector.count = vector.capacity THEN expandCapacity(vector)
             ELSE vector
    IN  [w EXCEPT !.elements = Wr(ShiftUp(w.elements, index, w.count),
                                  index, value),
                  !.count = w.count + 1]

insert(vector, index, value) ==
    LET w == IF vector.count = vector.capacity THEN expandCapacity(vector)
             ELSE vector
    IN  [w EXCEPT !.elements = Wr(ShiftRight(w.elements, w.count, index),
                                  index, value),
                  !.count = w.count + 1]

\* The loop of removeVector, lines 156-158: i runs up from index to count - 1.
RECURSIVE ShiftLeft(_, _, _)
ShiftLeft(e, i, n) ==
    IF i < n THEN ShiftLeft(Wr(e, i, Rd(e, i + 1)), i + 1, n) ELSE e

\* removeVector dropping the last slot without closing the gap.
RemoveLast(vector, index) == [vector EXCEPT !.count = vector.count - 1]

removeVector(vector, index) ==
    [vector EXCEPT !.count = vector.count - 1,
                   !.elements = ShiftLeft(vector.elements, index,
                                          vector.count - 1)]

\* The list newVectorIterator builds, lines 188-191: the cells [0, count),
\* each copied into the iterator's list in index order.
newVectorIterator(vector) ==
    [k \in 1..vector.count |-> Rd(vector.elements, k - 1)]

(* ------------------------------------------------- the abstract sequence *)

InsertAt(s, i, x) == SubSeq(s, 1, i) \o <<x>> \o SubSeq(s, i + 1, Len(s))

RemoveAt(s, i) == SubSeq(s, 1, i) \o SubSeq(s, i + 2, Len(s))

(* ------------------------------------------- memory past a buffer's end *)

\* The cells of a vector that it may read: the buffer, and the cells past
\* its end that lie in [0, count).  The code reads no cell at or after count
\* before writing it, so what lies in memory past both is left out.
Trim(vector) ==
    [vector EXCEPT
        !.elements = SubSeq(@, 1, Max(vector.capacity,
                                      IF vector.count < Len(@) THEN vector.count
                                      ELSE Len(@)))]

\* What an allocation made now may leave in the cells past the end of a
\* buffer of `cap` cells: the new block may lie there, and its owner writes it.
Clobbered(e, cap) ==
    {e} \cup {[e EXCEPT ![k] = Junk] : k \in (cap + 1)..Len(e)}

\* What a write of one of `written` past the end of another buffer may leave
\* in the first n cells of e: the written address may be one of them.
Hit(e, n, written) ==
    {e} \cup {[e EXCEPT ![k] = x] : k \in 1..(IF n < Len(e) THEN n ELSE Len(e)),
                                    x \in written}

\* What an operation on t leaves in the other vector's cells (o) and in the
\* iterator's list (it): nothing changed, or one cell of one of them.
Disturb(t, alloc, written) ==
    LET u == vec[Other(t)]
        os == Hit(u.elements, u.count, written) \cup
              (IF alloc THEN Clobbered(u.elements, u.capacity) ELSE {})
    IN  {[o |-> e, it |-> iter.list] : e \in os} \cup
        {[o |-> u.elements, it |-> l] : l \in Hit(iter.list, Len(iter.list), written)}

(* ---------------------------------------------------------------- state *)

Op(name, t, i) == [op |-> name, tgt |-> t, idx |-> i]

NoUndo == [stage |-> "none", tgt |-> "v", idx |-> 0, size |-> 0,
           before |-> <<>>]

NoIterator == [made |-> FALSE, list |-> <<>>, pos |-> 0]

\* The state before any vector exists.  `history` says whether the calls are
\* recorded in full (lastOp, ret, abs, undo, src) or only by their name and
\* the vector they were made on.
Start(h) ==
    /\ history = h
    /\ vec = [t \in Handles |-> NoVector]
    /\ live = {}
    /\ status = "ok"
    /\ ret = <<>>
    /\ lastOp = Op("none", "v", 0)
    /\ abs = [t \in Handles |-> <<>>]
    /\ undo = NoUndo
    /\ iter = NoIterator
    /\ snap = <<>>
    /\ yielded = <<>>
    /\ src = <<>>

Init == Start(TRUE)

InitBrief == Start(FALSE)

\* What lastOp, ret and undo keep of a call.
Noted(op) == IF history THEN op ELSE Op(op.op, op.tgt, 0)
Returned(r) == IF history THEN r ELSE <<>>
Undoing(u) == IF history THEN u ELSE NoUndo
Tracked(s) == IF history THEN s ELSE <<>>

\* The call ends: the vector t is nv, the call returned r.
Effect(t, op, nv, r, nabs, nundo, alloc, written) ==
    \E d \in Disturb(t, alloc, written) :
        /\ vec' = [vec EXCEPT ![t] = Trim(nv),
                              ![Other(t)] = [@ EXCEPT !.elements = d.o]]
        /\ iter' = [iter EXCEPT !.list = d.it]
        /\ status' = "ok"
        /\ ret' = Returned(r)
        /\ lastOp' = Noted(op)
        /\ abs' = [abs EXCEPT ![t] = Tracked(nabs)]
        /\ undo' = Undoing(nundo)
        /\ UNCHANGED <<live, snap, yielded, src, history>>

\* error(msg) of cslib: the call does not return.
Error(op) ==
    /\ status' = "error"
    /\ lastOp' = Noted(op)
    /\ UNCHANGED <<vec, live, ret, abs, undo, iter, snap, yielded, src, history>>

\* An access past the end of the buffer may end the process.
Crash(op) ==
    /\ status' = "crashed"
    /\ lastOp' = Noted(op)
    /\ UNCHANGED <<vec, live, ret, abs, undo, iter, snap, yielded, src, history>>

(* -------------------------------------------------------------- actions *)

NewVector ==
    /\ status = "ok" /\ "v" \notin live
    /\ vec' = [vec EXCEPT !["v"] = newVector]
    /\ live' = live \cup {"v"}
    /\ lastOp' = Noted(Op("newVector", "v", 0))
    /\ UNCHANGED <<status, ret, abs, undo, iter, snap, yielded, src, history>>

\* arrayToVector(array, n) for a present array of n element references.
ArrayToVector(array) ==
    /\ status = "ok" /\ "v" \notin live
    /\ vec' = [vec EXCEPT !["v"] = arrayToVector(array, Len(array))]
    /\ live' = live \cup {"v"}
    /\ abs' = [abs EXCEPT !["v"] = Tracked(array)]
    /\ src' = Returned(array)
    /\ lastOp' = Noted(Op("arrayToVector", "v", Len(array)))
    /\ UNCHANGED <<status, ret, undo, iter, snap, yielded, history>>

\* arrayToVector(NULL, n), line 59: no vector is made, NULL is returned.
ArrayToVectorNull ==
    /\ status = "ok" /\ "v" \notin live
    /\ ret' = Returned(<<NULL>>)
    /\ lastOp' = Noted(Op("arrayToVectorNull", "v", 0))
    /\ UNCHANGED <<vec, live, status, abs, undo, iter, snap, yielded, src, history>>

\* vectorToArray(vector) for a present vector.
VectorToArray(t) ==
    /\ status = "ok" /\ t \in live
    /\ LET op == Op("vectorToArray", t, 0)
       IN  \/ \E e \in Clobbered(vec[t].elements, vec[t].capacity) :
                LET w == [vec[t] EXCEPT !.elements = e]
                IN  Effect(t, op, w, vectorToArray(w), abs[t], NoUndo, TRUE, {})
           \/ vec[t].count > vec[t].capacity /\ Crash(op)

\* vectorToArray(NULL), line 75: NULL is returned.
VectorToArrayNull ==
    /\ status = "ok" /\ "v" \notin live
    /\ ret' = Returned(<<NULL>>)
    /\ lastOp' = Noted(Op("vectorToArrayNull", "v", 0))
    /\ UNCHANGED <<vec, live, status, abs, undo, iter, snap, yielded, src, history>>

IsEmpty(t) ==
    /\ status = "ok" /\ t \in live
    /\ Effect(t, Op("isEmpty", t, 0), vec[t],
              <<IF isEmptyVector(vec[t]) THEN 1 ELSE 0>>, abs[t], NoUndo,
              FALSE, {})

Size(t) ==
    /\ status = "ok" /\ t \in live
    /\ Effect(t, Op("size", t, 0), vec[t], <<sizeVector(vec[t])>>, abs[t],
              NoUndo, FALSE, {})

Clear(t) ==
    /\ status = "ok" /\ t \in live
    /\ Effect(t, Op("clear", t, 0), clearVector(vec[t]), <<>>, <<>>, NoUndo,
              FALSE, {})

\* c = cloneVector(v).
Clone ==
    /\ status = "ok" /\ "v" \in live /\ "c" \notin live
    /\ LET op == Op("clone", "c", 0)
       IN  \/ \E e \in Clobbered(vec["v"].elements, vec["v"].capacity) :
                LET w == [vec["v"] EXCEPT !.elements = e]
                    n == Trim(cloneVector(w))
                IN  /\ vec' = [vec EXCEPT !["v"] = w, !["c"] = n]
                    /\ live' = live \cup {"c"}
                    /\ abs' = [abs EXCEPT !["c"] = abs["v"]]
                    /\ lastOp' = Noted(op)
                    /\ undo' = NoUndo
                    /\ ret' = <<>>
                    /\ UNCHANGED <<status, iter, snap, yielded, src, history>>
           \/ vec["v"].count > vec["v"].capacity /\ Crash(op)

Get(t, index) ==
    /\ status = "ok" /\ t \in live
    /\ LET op == Op("get", t, index)
       IN  IF OutOfRange(vec[t], index) THEN Error(op)
           ELSE \/ Effect(t, op, vec[t], <<getVector(vec[t], index)>>, abs[t],
                          NoUndo, FALSE, {})
                \/ index >= vec[t].capacity /\ Crash(op)

Set(t, index, value) ==
    /\ status = "ok" /\ t \in live
    /\ LET op == Op("set", t, index)
       IN  IF OutOfRange(vec[t], index) THEN Error(op)
           ELSE \/ Effect(t, op, setVector(vec[t], index, value), <<>>,
                          [abs[t] EXCEPT ![index + 1] = value], NoUndo, FALSE,
                          IF index >= vec[t].capacity THEN {value} ELSE {})
                \/ index >= vec[t].capacity /\ Crash(op)

Add(t, value) ==
    /\ status = "ok" /\ t \in live
    /\ LET op == Op("add", t, vec[t].count)
           nv == addVector(vec[t], value)
           past == nv.count > nv.capacity
       IN  \/ Effect(t, op, nv, <<>>, Append(abs[t], value), NoUndo,
                     vec[t].count = vec[t].capacity,
                     IF past THEN {value} ELSE {})
           \/ past /\ Crash(op)

Insert(t, index, value) ==
    /\ status = "ok" /\ t \in live
    /\ LET op == Op("insert", t, index)
           nv == insert(vec[t], index, value)
           past == nv.count > nv.capacity
       IN  IF InsertOutOfRange(vec[t], index) THEN Error(op)
           ELSE \/ Effect(t, op, nv, <<>>, InsertAt(abs[t], index, value),
                          [stage |-> "inserted", tgt |-> t, idx |-> index,
                           size |-> sizeVector(vec[t]),
                           before |-> Contents(vec[t])],
                          vec[t].count = vec[t].capacity,
                          IF past THEN {value} ELSE {})
                \/ past /\ Crash(op)

Remove(t, index) ==
    /\ status = "ok" /\ t \in live
    /\ LET op == Op("remove", t, index)
           n == vec[t].count - 1
           past == index < n /\ n >= vec[t].capacity
           moved == {Rd(vec[t].elements, i + 1) :
                        i \in {j \in index..(n - 1) : j >= vec[t].capacity}}
       IN  IF OutOfRange(vec[t], index) THEN Error(op)
           ELSE \/ Effect(t, op, removeVector(vec[t], index), <<>>,
                          RemoveAt(abs[t], index),
                          IF undo.stage = "inserted" /\ undo.tgt = t
                             /\ undo.idx = index
                          THEN [undo EXCEPT !.stage = "removed"] ELSE NoUndo,
                          FALSE, moved)
                \/ past /\ Crash(op)

\* The generic iterator facility asks the vector for an iterator.
NewIterator ==
    /\ status = "ok" /\ "v" \in live /\ ~iter.made
    /\ LET op == Op("newVectorIterator", "v", 0)
       IN  \/ \E e \in Clobbered(vec["v"].elements, vec["v"].capacity) :
                LET w == [vec["v"] EXCEPT !.elements = e]
                IN  /\ vec' = [vec EXCEPT !["v"] = w]
                    /\ iter' = [made |-> TRUE, list |-> newVectorIterator(w),
                                pos |-> 0]
                    /\ snap' = Contents(vec["v"])
                    /\ yielded' = <<>>
                    /\ lastOp' = Noted(op)
                    /\ undo' = NoUndo
                    /\ UNCHANGED <<live, status, ret, abs, src, history>>
           \/ vec["v"].count > vec["v"].capacity /\ Crash(op)

\* The caller drives the iterator one step: the list iterator of the generic
\* facility hands out its next cell.
StepIterator ==
    /\ status = "ok" /\ iter.made /\ iter.pos < Len(iter.list)
    /\ yielded' = Append(yielded, iter.list[iter.pos + 1])
    /\ iter' = [iter EXCEPT !.pos = iter.pos + 1]
    /\ lastOp' = Noted(Op("stepIterator", "v", iter.pos))
    /\ undo' = NoUndo
    /\ UNCHANGED <<vec, live, status, ret, abs, snap, src, history>>

(* ------------------------------------------------------- specifications *)

RECURSIVE ArraysUpTo(_)
ArraysUpTo(n) ==
    IF n = 0 THEN {<<>>}
    ELSE LET shorter == ArraysUpTo(n - 1)
         IN  shorter \cup {Append(a, x) : a \in {b \in shorter : Len(b) = n - 1},
                                          x \in Vals}

Indexes(t) == -1..(vec[t].count + 1)

\* The operations on one vector t that neither allocate for another object
\* nor create one.
VectorOps(t, max) ==
    \/ IsEmpty(t)
    \/ Size(t)
    \/ Clear(t)
    \/ \E i \in Indexes(t) : Get(t, i)
    \/ \E i \in Indexes(t), x \in Vals : Set(t, i, x)
    \/ \E x \in Vals : vec[t].count < max /\ Add(t, x)
    \/ \E i \in Indexes(t), x \in Vals : vec[t].count < max /\ Insert(t, i, x)
    \/ \E i \in Indexes(t) : Remove(t, i)

Create ==
    \/ NewVector
    \/ \E a \in ArraysUpTo(MaxArr) : ArrayToVector(a)
    \/ ArrayToVectorNull

\* One vector under its own operations.
NextVec == Create \/ VectorOps("v", MaxCount)

SpecVec == Init /\ [][NextVec]_vars

\* A vector, its clone and their conversions to arrays.
Next ==
    \/ Create
    \/ \E t \in Handles : VectorOps(t, MaxPair)
    \/ \E t \in Handles : VectorToArray(t)
    \/ VectorToArrayNull
    \/ Clone

Spec == InitBrief /\ [][Next]_vars

\* A vector and an iterator over it.
NextIter ==
    \/ Create
    \/ VectorOps("v", MaxPair)
    \/ NewIterator
    \/ StepIterator

SpecIter == InitBrief /\ [][NextIter]_vars

\* Appends to a vector made by newVector, read back by size and get.
AppendChoices(n) == IF n < FreeAppends THEN Vals ELSE {(n % 2) + 1}

NextAppend ==
    \/ NewVector
    \/ \E x \in AppendChoices(vec["v"].count) :
          vec["v"].count < MaxAppends /\ Add("v", x)
    \/ Size("v")
    \/ \E i \in 0..(vec["v"].count - 1) : Get("v", i)

SpecAppend == Init /\ [][NextAppend]_vars

\* An array made into a vector and the vector made into an array.
NextArr ==
    \/ \E a \in ArraysUpTo(MaxRound) : ArrayToVector(a)
    \/ ArrayToVectorNull
    \/ VectorToArray("v")
    \/ VectorToArrayNull

SpecArr == Init /\ [][NextArr]_vars

(* ---------------------------------------------------------------- claims *)

\* C1: every vector that exists satisfies 0 <= count <= capacity.
C1_CountWithinCapacity ==
    \A t \in live : 0 <= vec[t].count /\ vec[t].count <= vec[t].capacity

\* C2: every vector that exists has capacity >= 1.
C2_CapacityPositive == \A t \in live : vec[t].capacity >= 1

\* The permitted range of the index of a positional operation, as the
\* contract states it.
Permitted(name, index, count) ==
    IF name = "insert" THEN 0 <= index /\ index <= count
    ELSE 0 <= index /\ index < count

Positional == {"get", "set", "remove", "insert"}

\* C3: get, set, remove and insert with an index outside the permitted range
\* end in the out-of-range error with the vector as it was before the call;
\* with an index inside it (insert at count included) they report no error.
C3_RangeErrors ==
    [][lastOp'.op \in Positional =>
         IF Permitted(lastOp'.op, lastOp'.idx, vec[lastOp'.tgt].count)
         THEN status' # "error"
         ELSE status' = "error" /\ vec' = vec]_vars

C3_Witness ==
    /\ status = "error" /\ lastOp.op = "remove"
    /\ vec["v"].count >= 1 /\ lastOp.idx = vec["v"].count

\* The smallest INITIAL_CAPACITY * 2^k that is >= n.
RECURSIVE GrownTo(_, _)
GrownTo(c, n) == IF c >= n THEN c ELSE GrownTo(2 * c, n)

\* C4: after N > INITIAL_CAPACITY appends to a new vector, size is N, get(i)
\* is the i-th appended value, and the capacity is the smallest
\* INITIAL_CAPACITY * 2^k that is >= N.
C4_Appends ==
    LET n == Len(abs["v"])
    IN  n > INITIAL_CAPACITY =>
          /\ sizeVector(vec["v"]) = n
          /\ \A i \in 0..(n - 1) : getVector(vec["v"], i) = abs["v"][i + 1]
          /\ vec["v"].capacity = GrownTo(INITIAL_CAPACITY, n)
          /\ lastOp.op = "size" => ret = <<n>>
          /\ lastOp.op = "get" => ret = <<abs["v"][lastOp.idx + 1]>>

C4_Witness ==
    /\ Len(abs["v"]) > 2 * INITIAL_CAPACITY
    /\ lastOp.op = "get" /\ lastOp.idx = 2 * INITIAL_CAPACITY

\* C5: insert(v, i, x) followed by remove(v, i) leaves the size and the
\* elements in [0, size) as they were before the insert.
C5_InsertRemove ==
    undo.stage = "removed" =>
        /\ sizeVector(vec[undo.tgt]) = undo.size
        /\ Contents(vec[undo.tgt]) = undo.before

\* The insert found the vector full and grew it, and was not at the end.
C5_Witness ==
    /\ undo.stage = "removed" /\ undo.size >= 2 /\ undo.idx < undo.size
    /\ vec[undo.tgt].capacity = 2 * undo.size

\* C6: to-array(create-from-array(A, n)) is an array of n + 1 entries, the
\* first n those of A in order, the last one null.
C6_RoundTrip ==
    lastOp.op = "vectorToArray" =>
        /\ Len(ret) = Len(src) + 1
        /\ SubSeq(ret, 1, Len(src)) = src
        /\ ret[Len(src) + 1] = NULL

C6_Witness ==
    /\ lastOp.op = "vectorToArray" /\ Len(src) = 3 /\ src[1] # src[3]

C6_WitnessEmpty == lastOp.op = "vectorToArray" /\ src = <<>>

Mutators == {"set", "add", "insert", "remove", "clear"}

\* C7: after c = clone(v), c has v's count, capacity and elements, and a set,
\* append, insert, remove or clear on one of the two leaves the size and the
\* elements of the other as they were.
C7_CloneIndependent ==
    [][/\ (lastOp'.op = "clone" /\ status' = "ok") =>
            /\ vec'["c"].count = vec'["v"].count
            /\ vec'["c"].capacity = vec'["v"].capacity
            /\ Contents(vec'["c"]) = Contents(vec'["v"])
       /\ (live = Handles /\ lastOp'.op \in Mutators) =>
            Contents(vec'[Other(lastOp'.tgt)]) = Contents(vec[Other(lastOp'.tgt)])
      ]_vars

\* C8: an iterator yields the elements the vector held when the iterator was
\* made, in index order, each once, whatever is done to the vector later.
C8_IteratorSnapshot ==
    iter.made =>
        /\ yielded = SubSeq(snap, 1, iter.pos)
        /\ SubSeq(iter.list, iter.pos + 1, Len(iter.list))
             = SubSeq(snap, iter.pos + 1, Len(snap))

\* C9: after any sequence of in-range append, insert, remove, set and clear
\* the slots [0, count), read through get, are the abstract sequence.
C9_Refines ==
    "v" \in live =>
        /\ sizeVector(vec["v"]) = Len(abs["v"])
        /\ \A i \in 0..(Len(abs["v"]) - 1) :
              getVector(vec["v"], i) = abs["v"][i + 1]
        /\ (lastOp.op = "get" /\ status = "ok") =>
              ret = <<abs["v"][lastOp.idx + 1]>>

\* An insert before the end found the vector full and grew it.
C9_Witness ==
    /\ lastOp.op = "insert" /\ status = "ok" /\ lastOp.idx = 1
    /\ vec["v"].count = 3 /\ vec["v"].capacity = 4
    /\ abs["v"][1] # abs["v"][2]

\* C10: in every step a vector's capacity stays or doubles, and it doubles
\* only in an append or insert on that vector that found count = capacity.
C10_CapacitySteps ==
    [][\A t \in live :
         \/ vec'[t].capacity = vec[t].capacity
         \/ /\ vec'[t].capacity = 2 * vec[t].capacity
            /\ lastOp'.op \in {"add", "insert"} /\ lastOp'.tgt = t
            /\ vec[t].count = vec[t].capacity]_vars

\* The clone has grown and the vector it was cloned from has not.
C10_Witness ==
    /\ live = Handles /\ lastOp.op = "insert" /\ lastOp.tgt = "c"
    /\ vec["c"].capacity = 2 * vec["v"].capacity /\ vec["v"].capacity >= 1

====
